---- MODULE Spec2Model ----
(***************************************************************************)
(* Reorder lifecycle of the Magazzino application (src/app.py): order      *)
(* codes, RDO staging and confirmation, supplier/producer locks, partial   *)
(* receipts and the history ledger.                                        *)
(*                                                                         *)
(* The store is SQLite through the sqlite3 module: a SELECT outside a      *)
(* transaction sees the last committed state, the first INSERT / UPDATE /  *)
(* DELETE of a connection opens a transaction and conn.commit() ends it.   *)
(* One step of the model is therefore either one read made outside a       *)
(* transaction or one whole write transaction; a handler made of several   *)
(* of them is a sequence of steps that other requests may interleave with  *)
(* (the WSGI servers of src/server.py and src/https_server.py serve        *)
(* requests on several threads).                                           *)
(***************************************************************************)
EXTENDS Integers, Sequences, FiniteSets, TLC

VARIABLES
    ledger,     \* riordini_effettuati: sequence of history events, in insertion order
    acc,        \* riordini_accettazione: set of rows
    nextAcc,    \* next AUTOINCREMENT id of riordini_accettazione
    rdo,        \* riordini_rdo: set of rows
    nextRdo,    \* next AUTOINCREMENT id of riordini_rdo
    rdoDates,   \* rdo_dates: sequence of rows, in insertion order
    lockF,      \* ordine_fornitori: function numero_ordine -> row
    lockP,      \* ordine_produttori: function numero_ordine -> row
    pc,         \* per request worker: the position inside its handler
    loc,        \* per request worker: the handler's local variables
    res,        \* the answer of the set_*_ordine or rule-write request that
                \* finished last, or the message flashed last by update_rdo,
                \* confirm_rdo ("incomplete", "not_found") or accettazione_update
    acks,       \* the set_*_ordine requests that answered success
    apIn,       \* apportionment harness: the inputs (total, raw rows)
    apOut,      \* apportionment harness: which loop ran and what it accepted
    giacenza,   \* materiali: per article key, SUM(quantita) of its non-scrap rows
    soglie,     \* riordino_soglie_ext (per key) and riordino_soglie (per article)
    lista,      \* reorder_rows of the riordini page rendered last
    reorder_count,  \* reorder_count of the dashboard rendered last
    extSchema   \* the schema of riordino_soglie_ext, the rows it holds while it
                \* has no produttore column, and riordino_soglie_ext_old

vars == <<ledger, acc, nextAcc, rdo, nextRdo, rdoDates, lockF, lockP,
          pc, loc, res, acks, apIn, apOut, giacenza, soglie, lista, reorder_count,
          extSchema>>

(***************************************************************************)
(* Bounds of the model.                                                    *)
(***************************************************************************)
MaxQty == 2        \* largest quantity typed into a form
MaxAcc == 2        \* acceptance rows ever created
MaxRdo == 1        \* RDO rows ever created
MaxLedger == 4     \* history events ever appended during a run
MaxRawLen == 2     \* rows of a submitted delivery list
MaxStock == 6      \* largest stock of an article in the threshold checks
MaxSoglia == 5     \* largest threshold of a rule
MaxRiordino == 10  \* largest reorder quantity of a rule
MaxGiacenza == 2   \* largest stock the inventory is set to while orders run

Procs == {"w1", "w2"}
Forns == {"f1", "f2"}
Prods == {"p1"}
Arts == {"a1"}

(***************************************************************************)
(* Order codes.  A code is the text "TM<year>/<digits>"; a legacy code is  *)
(* another text.  A text is modelled by its prefix, its year and the       *)
(* characters after the separator, decimal digits for the codes the        *)
(* program writes.                                                         *)
(***************************************************************************)
Year == 2025

NoCode == [prefix |-> "", year |-> 0, prog |-> <<>>]

RECURSIVE Digits(_)
Digits(n) == IF n < 10 THEN <<n>> ELSE Append(Digits(n \div 10), n % 10)

RECURSIVE PadZero(_, _)
PadZero(s, w) == IF Len(s) >= w THEN s ELSE PadZero(<<0>> \o s, w)

\* f"TM{year}/{next_prog:04d}"
FormatCode(y, n) == [prefix |-> "TM", year |-> y, prog |-> PadZero(Digits(n), 4)]

\* int(text): defined on non-empty digit strings only (raises otherwise)
IsNumber(s) == Len(s) > 0 /\ \A i \in 1..Len(s) : s[i] \in 0..9

RECURSIVE IntOf(_)
IntOf(s) == IF Len(s) = 0 THEN 0
            ELSE 10 * IntOf(SubSeq(s, 1, Len(s) - 1)) + s[Len(s)]

\* code.startswith(f"TM{year}/")
StartsWithYear(c) == c.prefix = "TM" /\ c.year = Year

\* the progressive a stored code contributes to the maximum (0: ignored);
\* ProgOfAnyYear: the same without the test on the year prefix
ProgOfAnyYear(c) == IF c # NoCode /\ IsNumber(c.prog) THEN IntOf(c.prog) ELSE 0
ProgOf(c) ==
    IF c # NoCode /\ StartsWithYear(c) /\ IsNumber(c.prog) THEN IntOf(c.prog) ELSE 0

RECURSIVE MaxProg(_)
MaxProg(rows) ==
    IF Len(rows) = 0 THEN 0
    ELSE LET m == MaxProg(Tail(rows))
             p == ProgOf(Head(rows).code)
         IN  IF p > m THEN p ELSE m

generate_order_code(rows) == FormatCode(Year, MaxProg(rows) + 1)

LegacyCode == [prefix |-> "ORD", year |-> 0, prog |-> <<0, 0, 7>>]
OldYearCode == [prefix |-> "TM", year |-> Year - 1, prog |-> <<0, 0, 0, 5>>]

(***************************************************************************)
(* Rows.  NULL and the empty text are both "" (the code reads every text   *)
(* column through `x or ''`).                                              *)
(***************************************************************************)
Event(tipo, code, q, art, forn, prod) ==
    [tipo |-> tipo, code |-> code, qty |-> q, art |-> art, forn |-> forn, prod |-> prod]

AccRow(id, code, total, art, forn, prod, date) ==
    [id |-> id, code |-> code, total |-> total, received |-> 0,
     art |-> art, forn |-> forn, prod |-> prod, date |-> date]

RdoRow(id, art, q, fornitori, produttori) ==
    [id |-> id, art |-> art, qty |-> q, fornitori |-> fornitori, forn |-> "",
     produttori |-> produttori, prod |-> "", date |-> ""]

DateRow(rid, date, q, prod) == [rdo |-> rid, date |-> date, qty |-> q, prod |-> prod]

LockRow(list, chosen, locked) == [list |-> list, chosen |-> chosen, locked |-> locked]

NoAcc == AccRow(0, NoCode, 0, "", "", "", "")
NoRdo == RdoRow(0, "", 0, <<>>, <<>>)

NoLoc == [id |-> 0, q |-> 0, nt |-> 0, code |-> NoCode, art |-> "", forn |-> "",
          prod |-> "", arow |-> NoAcc, rrow |-> NoRdo, keys |-> {}, page |-> ""]

Ack(kind, code, val) == [kind |-> kind, code |-> code, val |-> val]

\* SELECT * FROM t WHERE id=? ... fetchone()
AccById(id) == {r \in acc : r.id = id}
RdoById(id) == {r \in rdo : r.id = id}

RECURSIVE SelectSeq2(_, _)
SelectSeq2(s, rid) ==
    IF Len(s) = 0 THEN <<>>
    ELSE IF Head(s).rdo = rid THEN <<Head(s)>> \o SelectSeq2(Tail(s), rid)
         ELSE SelectSeq2(Tail(s), rid)

\* SELECT ... FROM rdo_dates WHERE rdo_id=?
DatesOf(rid) == SelectSeq2(rdoDates, rid)

\* DELETE FROM rdo_dates WHERE rdo_id=?  (DropDatesNone: the same deleting nothing)
DropDatesNone(s, rid) == s
RECURSIVE DropDates(_, _)
DropDates(s, rid) ==
    IF Len(s) = 0 THEN <<>>
    ELSE IF Head(s).rdo = rid THEN DropDates(Tail(s), rid)
         ELSE <<Head(s)>> \o DropDates(Tail(s), rid)

\* a finished request that answers with a redirect: back to idle, locals dropped
Finish(p) ==
    /\ pc' = [pc EXCEPT ![p] = "idle"]
    /\ loc' = [loc EXCEPT ![p] = NoLoc]
    /\ UNCHANGED res

\* a finished request that answers with JSON: return jsonify(...)
Answer(p, out) ==
    /\ pc' = [pc EXCEPT ![p] = "idle"]
    /\ loc' = [loc EXCEPT ![p] = NoLoc]
    /\ res' = out

Goto(p, label, l) ==
    /\ pc' = [pc EXCEPT ![p] = label]
    /\ loc' = [loc EXCEPT ![p] = l]
    /\ UNCHANGED res

Room == Len(ledger) < MaxLedger /\ nextAcc <= MaxAcc

(***************************************************************************)
(* Quantity apportionment: the loop of confirm_rdo over                    *)
(* zip(dates[], qtys[]) and the loop of update_rdo over the pieces of      *)
(* multiple_dates.  A typed quantity is a token: a number, or a text       *)
(* int() rejects.                                                          *)
(***************************************************************************)
Num(n) == [num |-> TRUE, v |-> n]
NotNum == [num |-> FALSE, v |-> 0]

\* try: int(str(q_raw).strip())  except: 0
ParseQty(tok) == IF tok.num THEN tok.v ELSE 0

Min2(a, b) == IF a < b THEN a ELSE b

\* zip(dates_list, qtys_list), with prods_list[idx] when idx < len(prods_list)
ZipRows(dates, qtys, prods) ==
    [i \in 1..Min2(Len(dates), Len(qtys)) |->
        [date |-> dates[i], qty |-> qtys[i],
         prod |-> IF i <= Len(prods) THEN prods[i] ELSE ""]]

\* if idx == 0 and qty_int < 1: qty_int = 1   (idx is the position in the raw list)
FirstAtLeastOne(i, q) == IF i = 1 /\ q < 1 THEN 1 ELSE q

\* if qty_int > remaining: qty_int = remaining
\* (ClampNone: the same without the limit)
ClampNone(q, remaining) == q
Clamp(q, remaining) == IF q > remaining THEN remaining ELSE q

RECURSIVE ConfirmLoop(_, _, _, _, _)
ConfirmLoop(rows, i, remaining, out, formProd) ==
    IF i > Len(rows) THEN out
    ELSE IF rows[i].date = "" THEN ConfirmLoop(rows, i + 1, remaining, out, formProd)
    ELSE LET q == Clamp(FirstAtLeastOne(i, ParseQty(rows[i].qty)), remaining)
             pv == IF rows[i].prod # "" THEN rows[i].prod ELSE formProd
             out2 == IF q > 0 THEN Append(out, [date |-> rows[i].date, qty |-> q, prod |-> pv])
                     ELSE out
             rem2 == IF q > 0 THEN remaining - q ELSE remaining
         IN  IF rem2 <= 0 THEN out2
             ELSE ConfirmLoop(rows, i + 1, rem2, out2, formProd)

\* clean_pairs of confirm_rdo
CleanPairsConfirm(total, dates, qtys, prods, formProd) ==
    IF Len(dates) = 0 THEN <<>>
    ELSE ConfirmLoop(ZipRows(dates, qtys, prods), 1, total, <<>>, formProd)

\* a piece of multiple_dates: "date:qty", or a text without ':' (colon = FALSE)
Piece(date, tok) == [colon |-> TRUE, date |-> date, qty |-> tok]
NoColon == [colon |-> FALSE, date |-> "", qty |-> NotNum]

RECURSIVE UpdateLoop(_, _, _, _)
UpdateLoop(pieces, i, remaining, out) ==
    IF i > Len(pieces) THEN out
    ELSE IF ~pieces[i].colon \/ pieces[i].date = ""
         THEN UpdateLoop(pieces, i + 1, remaining, out)
    ELSE LET q == Clamp(FirstAtLeastOne(i, ParseQty(pieces[i].qty)), remaining)
             out2 == IF q > 0 THEN Append(out, [date |-> pieces[i].date, qty |-> q, prod |-> ""])
                     ELSE out
             rem2 == IF q > 0 THEN remaining - q ELSE remaining
         IN  IF rem2 <= 0 THEN out2
             ELSE UpdateLoop(pieces, i + 1, rem2, out2)

\* the rows update_rdo inserts into rdo_dates
CleanPairsUpdate(total, pieces) == UpdateLoop(pieces, 1, total, <<>>)

RECURSIVE SumQty(_)
SumQty(s) == IF Len(s) = 0 THEN 0 ELSE Head(s).qty + SumQty(Tail(s))

(***************************************************************************)
(* Shortage detection: the riordini page and the dashboard counter.  An    *)
(* article key is the five article fields (materiale, tipo, spessore,      *)
(* dimensione_x, dimensione_y), held as one name, and the producer.        *)
(***************************************************************************)
Key(a, pr) == [art |-> a, prod |-> pr]
Keys == {Key(a, pr) : a \in Arts, pr \in {""} \cup Prods}

\* SELECT materiale, tipo, spessore, dx, dy, prod FROM articoli_catalogo
Catalogo == Keys

\* a row of riordino_soglie_ext / riordino_soglie; NoRule: no row for the key
Rule(th, qr) == [present |-> TRUE, threshold |-> th, quantita_riordino |-> qr]
NoRule == [present |-> FALSE, threshold |-> 0, quantita_riordino |-> 0]
DEFAULT_REORDER_THRESHOLD == 5

NoStock == [k \in Keys |-> 0]
NoSoglie == [ext |-> [k \in Keys |-> NoRule], legacy |-> [a \in Arts |-> NoRule]]

(***************************************************************************)
(* The schema of riordino_soglie_ext.  kind is "absent" (no such table),   *)
(* "oldcols" (a table without the produttore column, one row per article,  *)
(* held in short), "oldpk" (the eight columns under the three-field        *)
(* primary key of riordino_soglie) or "current" (the eight columns under   *)
(* the six-field primary key).  A table with the eight columns holds its   *)
(* rows in ext (soglie.ext for the live table).                            *)
(***************************************************************************)
NoExt == [k \in Keys |-> NoRule]
NoShort == [a \in Arts |-> NoRule]
Table(kind, ext, short) == [kind |-> kind, ext |-> ext, short |-> short]
NoTable == Table("absent", NoExt, NoShort)
CurrentSchema == [kind |-> "current", short |-> NoShort, old |-> NoTable]

\* threshold_val = row.get('threshold', DEFAULT) or DEFAULT: a stored 0 is
\* falsy and becomes the default
MigratedRule(r) ==
    IF r.present
    THEN Rule(IF r.threshold = 0 THEN DEFAULT_REORDER_THRESHOLD ELSE r.threshold,
              r.quantita_riordino)
    ELSE NoRule

\* the rows INSERT OR IGNOREd into the new table: a missing produttore is ''
Migrated(t) ==
    [k \in Keys |->
        IF t.kind = "oldcols"
        THEN IF k.prod = "" THEN MigratedRule(t.short[k.art]) ELSE NoRule
        ELSE MigratedRule(t.ext[k])]

\* not (required_cols.issubset(col_names)) or pk_cols != required_pk
\* (NeedsMigrationAlways: the same rebuilding every table it finds)
NeedsMigrationAlways(kind) == TRUE
NeedsMigration(kind) == kind # "current"

\* the steps of the migration at which a statement can raise
Fails == {"none", "rename", "create", "copy", "drop"}

\* ensure_riordino_soglie_ext_schema on the live table t with
\* riordino_soglie_ext_old = old, a statement raising at step fail: the pair
\* of tables it leaves.  Every exception is swallowed; the DDL statements are
\* committed as they run.
EnsureSchema(t, old, fail) ==
    LET same == [t |-> t, old |-> old]
    IN  IF t.kind = "absent"
        THEN IF fail = "create" THEN same
             ELSE [t |-> Table("current", NoExt, NoShort), old |-> old]
        ELSE IF ~NeedsMigration(t.kind) THEN same
        ELSE IF fail = "rename" \/ old.kind # "absent" THEN same
        ELSE IF fail = "create" THEN [t |-> NoTable, old |-> t]
        ELSE IF fail = "copy"
             THEN [t |-> Table("current", NoExt, NoShort), old |-> t]
        ELSE IF fail = "drop"
             THEN [t |-> Table("current", Migrated(t), NoShort), old |-> t]
        ELSE [t |-> Table("current", Migrated(t), NoShort), old |-> NoTable]

\* the live table of the state
Live == Table(extSchema.kind, soglie.ext, extSchema.short)

\* the producers in the fixed order the store returns them
ProdSeq == <<"p1">>

\* SELECT DISTINCT produttore FROM materiali WHERE <article> AND produttore
\* non-blank AND not scrap: the producers the article has rows of
DeduceProduttori(a) ==
    LET HasRows(pr) == giacenza[Key(a, pr)] > 0
    IN  SelectSeq(ProdSeq, HasRows)

\* active_keys.add(...) for each row of riordini_accettazione
AccKeys == {Key(r.art, r.prod) : r \in acc}

\* the keys of one riordini_rdo row: the chosen producer if any, else every
\* listed producer, else ''   (RdoKeysAnyProd: the same matching any producer)
RdoKeysAnyProd(r) == {k \in Keys : k.art = r.art}
RdoKeys(r) ==
    IF r.prod # "" THEN {Key(r.art, r.prod)}
    ELSE IF Len(r.produttori) > 0
         THEN {Key(r.art, r.produttori[i]) : i \in 1..Len(r.produttori)}
         ELSE {Key(r.art, "")}

RdoAllKeys == UNION {RdoKeys(r) : r \in rdo}

\* th_val: the extended rule first, else the legacy one, else the default
\* (SogliaLegacyFirst: the same with the legacy rule first)
SogliaLegacyFirst(k) ==
    IF soglie.legacy[k.art].present THEN soglie.legacy[k.art].threshold
    ELSE IF soglie.ext[k].present THEN soglie.ext[k].threshold
         ELSE DEFAULT_REORDER_THRESHOLD
Soglia(k) ==
    IF soglie.ext[k].present THEN soglie.ext[k].threshold
    ELSE IF soglie.legacy[k.art].present THEN soglie.legacy[k.art].threshold
         ELSE DEFAULT_REORDER_THRESHOLD

\* rq_manual, 0 standing for None: the reorder quantity of the extended rule
\* when the key has one, else of the legacy rule; a value <= 0 is None
RqManual(k) ==
    LET raw == IF soglie.ext[k].present THEN soglie.ext[k].quantita_riordino
               ELSE IF soglie.legacy[k.art].present
                    THEN soglie.legacy[k.art].quantita_riordino
                    ELSE 0
    IN  IF raw <= 0 THEN 0 ELSE raw

\* if int(th_val) == 0: continue   (SogliaZeroNever: the same never skipping)
SogliaZeroNever(th) == FALSE
SogliaZero(th) == th = 0

\* rq, 0 standing for None   (RiordinoQtyManual: the manual quantity whenever set)
RiordinoQtyManual(total_qty, th_val, rq_manual) ==
    IF rq_manual = 0 THEN (th_val + 1) - total_qty ELSE rq_manual
RiordinoQty(total_qty, th_val, rq_manual) ==
    IF total_qty <= th_val
    THEN IF rq_manual = 0 THEN (th_val + 1) - total_qty
         ELSE IF total_qty + rq_manual <= th_val + 1
              THEN (th_val + 1) - total_qty
              ELSE rq_manual
    ELSE rq_manual

\* reorder_rows, given the active keys the pass collected
ReorderRows(active) ==
    {[key |-> k, quantita_totale |-> giacenza[k],
      riordino_qty |-> RiordinoQty(giacenza[k], Soglia(k), RqManual(k))] :
        k \in {c \in Catalogo : /\ c \notin active
                                /\ ~ SogliaZero(Soglia(c))
                                /\ giacenza[c] <= Soglia(c)}}

DbUnchanged == UNCHANGED <<ledger, acc, nextAcc, rdo, nextRdo, rdoDates, lockF, lockP>>
AuxUnchanged ==
    UNCHANGED <<acks, apIn, apOut, giacenza, soglie, lista, reorder_count, extSchema>>

(***************************************************************************)
(* RDO staging: create_rdo and update_rdo, one transaction each.  The      *)
(* parameters after the worker are the form fields.                        *)
(***************************************************************************)
CreateRdo(p, a, q, fl, pl) ==
    /\ pc[p] = "idle"
    /\ nextRdo <= MaxRdo
    /\ IF q <= 0
       THEN /\ Finish(p)
            /\ DbUnchanged
       ELSE LET prod_list == IF pl # <<>> THEN pl ELSE DeduceProduttori(a)
            IN  /\ rdo' = rdo \cup {RdoRow(nextRdo, a, q, fl, prod_list)}
                /\ nextRdo' = nextRdo + 1
                /\ Finish(p)
                /\ UNCHANGED <<ledger, acc, nextAcc, rdoDates, lockF, lockP>>
    /\ AuxUnchanged

\* md: the pieces of multiple_dates (<<>>: the field is empty)
UpdateRdo(p, rid, qv, fs, ps, dp, md) ==
    /\ pc[p] = "idle"
    /\ LET found == RdoById(rid) # {}
           upd(r) == [r EXCEPT !.qty = IF qv > 0 THEN qv ELSE @,
                               !.forn = fs, !.prod = ps,
                               !.date = IF md # <<>> THEN "" ELSE dp]
           total == IF qv > 0 THEN qv
                    ELSE IF found THEN (CHOOSE r \in RdoById(rid) : TRUE).qty ELSE 0
           \* the FOREIGN KEY of rdo_dates rejects the rows of a missing RDO
           cp == IF found THEN CleanPairsUpdate(total, md) ELSE <<>>
       IN  /\ rdo' = {IF r.id = rid THEN upd(r) ELSE r : r \in rdo}
           /\ rdoDates' = IF md = <<>> THEN rdoDates
                          ELSE DropDates(rdoDates, rid) \o
                               [i \in 1..Len(cp) |-> DateRow(rid, cp[i].date, cp[i].qty, "")]
           \* flash('Riga RDO aggiornata.', 'success'), whatever the UPDATE matched
           /\ Answer(p, "updated")
    /\ UNCHANGED <<ledger, acc, nextAcc, nextRdo, lockF, lockP>>
    /\ AuxUnchanged

(***************************************************************************)
(* confirm_rdo.  ConfirmBegin: the SELECT of the RDO, the validation and   *)
(* the first transaction (RDO row and rdo_dates rewritten from the form,   *)
(* commit).  ConfirmReload: the second SELECT of the RDO.  ConfirmCode:    *)
(* generate_order_code, a SELECT outside any transaction.  ConfirmWrite:   *)
(* the second transaction (locks, 'ordine' event, acceptance rows, RDO     *)
(* deleted, commit).                                                       *)
(***************************************************************************)
\* dates[] / qtys[] / produttore_scelti[] of the confirm_rdo form
Form(dates, qtys, prods) == [dates |-> dates, qtys |-> qtys, prods |-> prods]

\* the validation of confirm_rdo: quantita_val is None (qv = 0) with no quantity
\* on the RDO, or no fornitore_scelto, or no non-blank date
IncompleteNever(qv, existing, ff, dates) == FALSE
Incomplete(qv, existing, ff, dates) ==
    \/ qv = 0 /\ existing = 0
    \/ ff = ""
    \/ ~ \E i \in 1..Len(dates) : dates[i] # ""

ConfirmBegin(p, rid, qv, ff, fp, f) ==
    /\ pc[p] = "idle"
    /\ Room
    /\ IF RdoById(rid) = {}
       THEN /\ Answer(p, "not_found")
            /\ UNCHANGED <<rdo, rdoDates>>
       ELSE LET row == CHOOSE r \in RdoById(rid) : TRUE
                total == IF qv > 0 THEN qv ELSE row.qty
                cp == CleanPairsConfirm(total, f.dates, f.qtys, f.prods, fp)
                upd == [row EXCEPT !.qty = IF qv > 0 THEN qv ELSE @,
                                   !.forn = ff,
                                   !.prod = IF fp # "" THEN fp ELSE @,
                                   !.date = IF cp = <<>> THEN @
                                            ELSE IF Len(cp) = 1 THEN cp[1].date ELSE ""]
            IN  IF Incomplete(qv, row.qty, ff, f.dates)
                THEN /\ Answer(p, "incomplete")
                     /\ UNCHANGED <<rdo, rdoDates>>
                ELSE /\ rdo' = (rdo \ {row}) \cup {upd}
                     /\ rdoDates' = DropDates(rdoDates, rid) \o
                           [i \in 1..Len(cp) |-> DateRow(rid, cp[i].date, cp[i].qty, cp[i].prod)]
                     /\ Goto(p, "confirm_reload", [NoLoc EXCEPT !.id = rid])
    /\ UNCHANGED <<ledger, acc, nextAcc, nextRdo, lockF, lockP>>
    /\ AuxUnchanged

ConfirmReload(p) ==
    /\ pc[p] = "confirm_reload"
    /\ IF RdoById(loc[p].id) = {}
       THEN Finish(p)
       ELSE Goto(p, "confirm_code",
                 [loc[p] EXCEPT !.rrow = CHOOSE r \in RdoById(loc[p].id) : TRUE])
    /\ DbUnchanged
    /\ AuxUnchanged

ConfirmCode(p) ==
    /\ pc[p] = "confirm_code"
    /\ Goto(p, "confirm_write",
            [loc[p] EXCEPT !.code = generate_order_code(ledger)])
    /\ DbUnchanged
    /\ AuxUnchanged

\* (rdo.get('x_scelto') or '').strip() or (x_list[0] if x_list else None)
Chosen(scelto, list) == IF scelto # "" THEN scelto ELSE IF Len(list) > 0 THEN list[1] ELSE ""

\* INSERT OR IGNORE ... ; UPDATE ... SET ..., locked=1 WHERE numero_ordine=?
Upsert(t, c, row) == [x \in DOMAIN t \cup {c} |-> IF x = c THEN row ELSE t[x]]

RECURSIVE PositiveRows(_)
PositiveRows(s) ==
    IF Len(s) = 0 THEN <<>>
    ELSE IF Head(s).qty > 0 THEN <<Head(s)>> \o PositiveRows(Tail(s))
         ELSE PositiveRows(Tail(s))

ConfirmWrite(p) ==
    /\ pc[p] = "confirm_write"
    /\ LET r == loc[p].rrow
           c == loc[p].code
           forn == Chosen(r.forn, r.fornitori)
           prod == Chosen(r.prod, r.produttori)
           dates == DatesOf(loc[p].id)
           pos == PositiveRows(dates)
           fan == IF Len(dates) > 0
                  THEN {AccRow(nextAcc + k - 1, c, pos[k].qty, r.art, forn,
                               IF pos[k].prod # "" THEN pos[k].prod ELSE prod,
                               pos[k].date) : k \in 1..Len(pos)}
                  ELSE {AccRow(nextAcc, c, r.qty, r.art, forn, prod, r.date)}
       IN  /\ lockF' = Upsert(lockF, c, LockRow(r.fornitori, forn, 1))
           /\ lockP' = Upsert(lockP, c, LockRow(r.produttori, prod, 1))
           /\ ledger' = Append(ledger, Event("ordine", c, r.qty, r.art, forn, prod))
           /\ acc' = acc \cup fan
           /\ nextAcc' = nextAcc + Cardinality(fan)
           /\ rdoDates' = DropDates(rdoDates, loc[p].id)
           /\ rdo' = rdo \ RdoById(loc[p].id)
           /\ Finish(p)
    /\ UNCHANGED nextRdo
    /\ AuxUnchanged

(***************************************************************************)
(* conferma_ordine_combo and conferma_riordino: generate_order_code (a     *)
(* SELECT outside any transaction), then one transaction with the inserts. *)
(***************************************************************************)
ComboBegin(p, a, q, f) ==
    /\ pc[p] = "idle"
    /\ Room
    /\ IF q <= 0
       THEN Finish(p)
       ELSE Goto(p, "combo_write",
                 [NoLoc EXCEPT !.code = generate_order_code(ledger),
                               !.art = a, !.q = q, !.forn = f])
    /\ DbUnchanged
    /\ AuxUnchanged

ComboWrite(p) ==
    /\ pc[p] = "combo_write"
    /\ acc' = acc \cup {AccRow(nextAcc, loc[p].code, loc[p].q, loc[p].art, "", "", "")}
    /\ nextAcc' = nextAcc + 1
    /\ ledger' = Append(ledger, Event("ordine", loc[p].code, loc[p].q, loc[p].art,
                                      loc[p].forn, ""))
    /\ Finish(p)
    /\ UNCHANGED <<rdo, nextRdo, rdoDates, lockF, lockP>>
    /\ AuxUnchanged

\* found: the material of the URL exists
RiordinoBegin(p, found, a, q) ==
    /\ pc[p] = "idle"
    /\ Room
    /\ IF ~found
       THEN Finish(p)
       ELSE Goto(p, "riordino_write",
                 [NoLoc EXCEPT !.code = generate_order_code(ledger),
                               !.art = a, !.q = q])
    /\ DbUnchanged
    /\ AuxUnchanged

RiordinoWrite(p) ==
    /\ pc[p] = "riordino_write"
    /\ ledger' = Append(ledger, Event("ordine", loc[p].code, loc[p].q, loc[p].art, "", ""))
    /\ Finish(p)
    /\ UNCHANGED <<acc, nextAcc, rdo, nextRdo, rdoDates, lockF, lockP>>
    /\ AuxUnchanged

(***************************************************************************)
(* set_fornitore_ordine / set_produttore_ordine.  Begin: the field check   *)
(* and the SELECT of the lock row, outside any transaction.  Write: the    *)
(* transaction (INSERT OR IGNORE when the row was not seen, UPDATE of the  *)
(* choice with locked=1, UPDATE of the order's 'ordine' history rows,      *)
(* commit) and the success answer.                                         *)
(***************************************************************************)
\* if row and row['locked']
\* (AlreadyLockedNever: the same with the test left out)
AlreadyLockedNever(t, c) == FALSE
AlreadyLocked(t, c) == c \in DOMAIN t /\ t[c].locked # 0

SetFornBegin(p, c, v) ==
    /\ pc[p] = "idle"
    /\ IF c = NoCode \/ v = ""
       THEN Answer(p, "missing")
       ELSE IF AlreadyLocked(lockF, c)
            THEN Answer(p, "conflict")
            ELSE Goto(p, "set_forn_write", [NoLoc EXCEPT !.code = c, !.forn = v])
    /\ DbUnchanged
    /\ AuxUnchanged

SetProdBegin(p, c, v) ==
    /\ pc[p] = "idle"
    /\ IF c = NoCode \/ v = ""
       THEN Answer(p, "missing")
       ELSE IF AlreadyLocked(lockP, c)
            THEN Answer(p, "conflict")
            ELSE Goto(p, "set_prod_write", [NoLoc EXCEPT !.code = c, !.prod = v])
    /\ DbUnchanged
    /\ AuxUnchanged

\* UPDATE riordini_effettuati SET <col>=? WHERE numero_ordine=? AND tipo_evento='ordine'
BackFillAnyCode(rows, c, col, v) ==
    [i \in 1..Len(rows) |->
        IF rows[i].tipo = "ordine" THEN [rows[i] EXCEPT ![col] = v] ELSE rows[i]]
BackFill(rows, c, col, v) ==
    [i \in 1..Len(rows) |->
        IF rows[i].code = c /\ rows[i].tipo = "ordine"
        THEN [rows[i] EXCEPT ![col] = v] ELSE rows[i]]

\* INSERT OR IGNORE (c, NULL, NULL, 0); UPDATE ... SET <x>_scelto=?, locked=1
LockWrite(t, c, v) ==
    Upsert(t, c, LockRow(IF c \in DOMAIN t THEN t[c].list ELSE <<>>, v, 1))

SetFornWrite(p) ==
    /\ pc[p] = "set_forn_write"
    /\ lockF' = LockWrite(lockF, loc[p].code, loc[p].forn)
    /\ ledger' = BackFill(ledger, loc[p].code, "forn", loc[p].forn)
    /\ acks' = acks \cup {Ack("forn", loc[p].code, loc[p].forn)}
    /\ Answer(p, "success")
    /\ UNCHANGED <<acc, nextAcc, rdo, nextRdo, rdoDates, lockP, apIn, apOut, giacenza, soglie, lista, reorder_count,
                 extSchema>>

SetProdWrite(p) ==
    /\ pc[p] = "set_prod_write"
    /\ lockP' = LockWrite(lockP, loc[p].code, loc[p].prod)
    /\ ledger' = BackFill(ledger, loc[p].code, "prod", loc[p].prod)
    /\ acks' = acks \cup {Ack("prod", loc[p].code, loc[p].prod)}
    /\ Answer(p, "success")
    /\ UNCHANGED <<acc, nextAcc, rdo, nextRdo, rdoDates, lockF, apIn, apOut, giacenza, soglie, lista, reorder_count,
                 extSchema>>

(***************************************************************************)
(* Receiving.  ManualOrder: the nuovo_ordine branch of /add, which inserts *)
(* an acceptance row with no order code.  AccUpdate: accettazione_update,  *)
(* only reads (the row, then the supplier lock of its code) and answers    *)
(* with the redirect to the /add form.  AddRead: the /add POST with acc_id *)
(* up to its SELECT of the row, outside any transaction.  AddWrite: the    *)
(* transaction up to the first commit.  AddClose: the DELETE of a          *)
(* completed row and its commit.                                           *)
(***************************************************************************)
ManualOrder(p, a, q, f, pr, d) ==
    /\ pc[p] = "idle"
    /\ nextAcc <= MaxAcc
    /\ IF a = "" \/ f = "" \/ pr = "" \/ d = ""
       THEN /\ Finish(p)
            /\ UNCHANGED <<acc, nextAcc>>
       ELSE /\ acc' = acc \cup {AccRow(nextAcc, NoCode, q, a, f, pr, d)}
            /\ nextAcc' = nextAcc + 1
            /\ Finish(p)
    /\ UNCHANGED <<ledger, rdo, nextRdo, rdoDates, lockF, lockP>>
    /\ AuxUnchanged

\* frn_row and frn_row['locked'] and (frn_row['fornitore_scelto'] or '').strip()
SupplierLocked(c) == c \in DOMAIN lockF /\ lockF[c].locked # 0 /\ lockF[c].chosen # ""

\* if numero_ord: ... reject unless the supplier is locked
LockCheckPasses(row) == row.code = NoCode \/ SupplierLocked(row.code)

\* residuo = effective_total - current_received; if residuo < 0: residuo = 0
Residuo(row) == IF row.total - row.received < 0 THEN 0 ELSE row.total - row.received

AccUpdate(p, id, q) ==
    /\ pc[p] = "idle"
    /\ Len(ledger) < MaxLedger
    /\ IF AccById(id) = {}
       THEN Answer(p, "not_found")
       ELSE LET row == CHOOSE r \in AccById(id) : TRUE
            IN  IF ~LockCheckPasses(row)
                THEN Finish(p)
                ELSE IF q <= 0 \/ q > Residuo(row)
                     THEN Finish(p)
                     ELSE Goto(p, "add_form", [NoLoc EXCEPT !.id = id, !.q = q])
    /\ DbUnchanged
    /\ AuxUnchanged

\* q, nt, f, pr: quantita, acc_q_totale_new, fornitore, produttore of the form
AddRead(p, q, nt, f, pr) ==
    /\ pc[p] = "add_form"
    /\ IF f = "" \/ pr = ""
       THEN Finish(p)
       ELSE IF AccById(loc[p].id) = {}
            THEN Finish(p)
            ELSE Goto(p, "add_write",
                      [loc[p] EXCEPT !.q = q, !.nt = nt, !.forn = f, !.prod = pr,
                                     !.arow = CHOOSE r \in AccById(loc[p].id) : TRUE])
    /\ DbUnchanged
    /\ AuxUnchanged

\* q_ricevuta += accepted_qty
\* (NewReceivedMerged: the same with the increment left out)
NewReceivedMerged(read, q) == read
NewReceived(read, q) == read + q

\* the 'accettazione' row of riordini_effettuati
ReceiptEvent(row, q, f, pr) == Event("accettazione", row.code, q, row.art, f, pr)

\* if q_totale > 0 and q_ricevuta >= q_totale
Completed(total, received) == total > 0 /\ received >= total

AddWrite(p) ==
    /\ pc[p] = "add_write"
    /\ LET l == loc[p]
           row == l.arow
           total == IF l.nt > 0 THEN l.nt ELSE row.total
           received == IF l.q > 0 THEN NewReceived(row.received, l.q) ELSE row.received
           upd(r) == IF r.id # l.id THEN r
                     ELSE [r EXCEPT !.total = IF l.nt > 0 THEN l.nt ELSE @,
                                    !.received = IF l.q > 0 THEN received ELSE @,
                                    !.forn = IF l.q > 0 THEN l.forn ELSE @,
                                    !.prod = IF l.q > 0 THEN l.prod ELSE @]
       IN  /\ acc' = {upd(r) : r \in acc}
           /\ ledger' = IF l.q > 0 THEN Append(ledger, ReceiptEvent(row, l.q, l.forn, l.prod))
                        ELSE ledger
           /\ IF Completed(total, received)
              THEN Goto(p, "add_close", l)
              ELSE Finish(p)
    /\ UNCHANGED <<nextAcc, rdo, nextRdo, rdoDates, lockF, lockP>>
    /\ AuxUnchanged

AddClose(p) ==
    /\ pc[p] = "add_close"
    /\ acc' = acc \ AccById(loc[p].id)
    /\ Finish(p)
    /\ UNCHANGED <<ledger, nextAcc, rdo, nextRdo, rdoDates, lockF, lockP>>
    /\ AuxUnchanged

(***************************************************************************)
(* conferma_e_invia and the detection passes.                              *)
(***************************************************************************)
\* conferma_e_invia for one selected row: the row's own producer when it has
\* one, else the producers of the form, else the deduced ones; fl are the
\* suppliers of the form or the deduced ones.  It stores an RDO, no order.
ConfermaEInvia(p, a, pr, q, fl, pl) ==
    /\ pc[p] = "idle"
    /\ nextRdo <= MaxRdo
    /\ IF q <= 0
       THEN /\ Finish(p)
            /\ DbUnchanged
       ELSE LET prod_list == IF pr # "" THEN <<pr>>
                             ELSE IF pl # <<>> THEN pl ELSE DeduceProduttori(a)
            IN  /\ rdo' = rdo \cup {RdoRow(nextRdo, a, q, fl, prod_list)}
                /\ nextRdo' = nextRdo + 1
                /\ Finish(p)
                /\ UNCHANGED <<ledger, acc, nextAcc, rdoDates, lockF, lockP>>
    /\ AuxUnchanged

\* a pass starts: SELECT ... FROM riordini_accettazione
DetectAcc(p, page) ==
    /\ pc[p] = "idle"
    /\ Goto(p, "detect_rdo", [NoLoc EXCEPT !.keys = AccKeys, !.page = page])
    /\ DbUnchanged
    /\ AuxUnchanged

\* SELECT ... FROM riordini_rdo
DetectRdo(p) ==
    /\ pc[p] = "detect_rdo"
    /\ Goto(p, "detect_catalog", [loc[p] EXCEPT !.keys = @ \cup RdoAllKeys])
    /\ DbUnchanged
    /\ AuxUnchanged

\* riordini: the loop over the catalog, which reads the stock of each key
RiordiniCatalog(p) ==
    /\ pc[p] = "detect_catalog"
    /\ loc[p].page = "riordini"
    /\ lista' = ReorderRows(loc[p].keys)
    /\ Finish(p)
    /\ DbUnchanged
    /\ UNCHANGED <<acks, apIn, apOut, giacenza, soglie, reorder_count, extSchema>>

\* dashboard: the same loop, counting the rows instead of collecting them
DashboardCatalog(p) ==
    /\ pc[p] = "detect_catalog"
    /\ loc[p].page = "dashboard"
    /\ reorder_count' = Cardinality(ReorderRows(loc[p].keys))
    /\ Finish(p)
    /\ DbUnchanged
    /\ UNCHANGED <<acks, apIn, apOut, giacenza, soglie, lista, extSchema>>

\* the inventory pages (add, remove, edit of materiali rows) leave key k with
\* a total of n
Inventario(k, n) ==
    /\ giacenza' = [giacenza EXCEPT ![k] = n]
    /\ DbUnchanged
    /\ UNCHANGED <<pc, loc, res, acks, apIn, apOut, soglie, lista, reorder_count, extSchema>>

(***************************************************************************)
(* The threshold registry.  Every rule write opens its own connection,     *)
(* calls ensure_riordino_soglie_ext_schema first and commits when its      *)
(* with block ends: one step each.                                         *)
(***************************************************************************)
\* the tables hold the six text columns the statements of the handlers name
HasColumns(kind) == kind \in {"oldpk", "current"}

\* INSERT OR REPLACE INTO riordino_soglie_ext: under the three-field primary
\* key the row replaces the one of the same article; without the columns the
\* statement raises sqlite3.Error
ExtUpsert(t, k, rule) ==
    IF t.kind = "current" THEN [t EXCEPT !.ext[k] = rule]
    ELSE IF t.kind = "oldpk"
         THEN [t EXCEPT !.ext = [j \in Keys |-> IF j = k THEN rule
                                                ELSE IF j.art = k.art THEN NoRule
                                                     ELSE t.ext[j]]]
         ELSE t

\* the registry after ensure left e and the handler left the live table t
\* and the legacy table leg
Stored(t, old, leg) ==
    /\ soglie' = [ext |-> t.ext, legacy |-> leg]
    /\ extSchema' = [kind |-> t.kind, short |-> t.short, old |-> old]

RegistryFrame ==
    /\ DbUnchanged
    /\ UNCHANGED <<pc, loc, acks, apIn, apOut, giacenza, lista, reorder_count>>

\* the call on its own
EnsureCall(fail) ==
    LET e == EnsureSchema(Live, extSchema.old, fail)
    IN  /\ Stored(e.t, e.old, soglie.legacy)
        /\ UNCHANGED res
        /\ RegistryFrame

\* POST /update_soglia: the threshold of key k, keeping its reorder quantity
UpdateSoglia(k, raw, fail) ==
    LET e == EnsureSchema(Live, extSchema.old, fail)
        soglia_val == IF raw.num /\ raw.v >= 0 THEN raw.v
                      ELSE DEFAULT_REORDER_THRESHOLD
        qr_ext == IF HasColumns(e.t.kind) /\ e.t.ext[k].present
                  THEN e.t.ext[k].quantita_riordino ELSE 0
        qr_leg == IF soglie.legacy[k.art].present
                  THEN soglie.legacy[k.art].quantita_riordino ELSE 0
        qr_val == IF qr_ext > 0 THEN qr_ext ELSE IF qr_leg > 0 THEN qr_leg ELSE 1
    IN  /\ Stored(ExtUpsert(e.t, k, Rule(soglia_val, qr_val)), e.old, soglie.legacy)
        /\ res' = "ok"
        /\ RegistryFrame

\* POST /update_quantita_riordino: the reorder quantity of key k, keeping its
\* threshold
UpdateQuantitaRiordino(k, raw, fail) ==
    LET e == EnsureSchema(Live, extSchema.old, fail)
        qr_val == IF raw.num /\ raw.v > 0 THEN raw.v ELSE 1
        th == IF HasColumns(e.t.kind) /\ e.t.ext[k].present
              THEN e.t.ext[k].threshold
              ELSE IF soglie.legacy[k.art].present
                   THEN soglie.legacy[k.art].threshold
                   ELSE DEFAULT_REORDER_THRESHOLD
        threshold_val == IF th < 0 THEN DEFAULT_REORDER_THRESHOLD ELSE th
    IN  /\ Stored(ExtUpsert(e.t, k, Rule(threshold_val, qr_val)), e.old, soglie.legacy)
        /\ res' = "ok"
        /\ RegistryFrame

\* POST /config, one row of the form: both tables.  Its INSERTs are not
\* guarded: on a table without the columns the request ends in an error and
\* its transaction is rolled back.
ConfigPost(k, thraw, qrraw, fail) ==
    LET e == EnsureSchema(Live, extSchema.old, fail)
        soglia_val == IF thraw.num /\ thraw.v >= 0 THEN thraw.v
                      ELSE DEFAULT_REORDER_THRESHOLD
        qr_val == IF qrraw.num /\ qrraw.v > 0 THEN qrraw.v ELSE 1
        rule == Rule(soglia_val, qr_val)
    IN  /\ IF HasColumns(e.t.kind)
           THEN /\ Stored(ExtUpsert(e.t, k, rule), e.old,
                          [soglie.legacy EXCEPT ![k.art] = rule])
                /\ res' = "ok"
           ELSE /\ Stored(e.t, e.old, soglie.legacy)
                /\ res' = "error"
        /\ RegistryFrame

(***************************************************************************)
(* Apportionment on its own: the two loops applied to a total and a raw    *)
(* list drawn by Init.                                                     *)
(***************************************************************************)
NoAp == [q |-> 0, rows |-> <<>>]
NoOut == [loop |-> "", rows |-> <<>>]

RawDates == {"", "d1"}
RawToks == {Num(n) : n \in -1..MaxQty} \cup {NotNum}
RawRows == [date : RawDates, qty : RawToks]
RawLists == UNION {[1..n -> RawRows] : n \in 0..MaxRawLen}

ApplyConfirm ==
    /\ apOut = NoOut
    /\ apOut' = [loop |-> "confirm",
                 rows |-> CleanPairsConfirm(apIn.q,
                              [i \in 1..Len(apIn.rows) |-> apIn.rows[i].date],
                              [i \in 1..Len(apIn.rows) |-> apIn.rows[i].qty], <<>>, "")]
    /\ UNCHANGED <<ledger, acc, nextAcc, rdo, nextRdo, rdoDates, lockF, lockP,
                   pc, loc, res, acks, apIn, giacenza, soglie, lista, reorder_count,
                   extSchema>>

ApplyUpdate ==
    /\ apOut = NoOut
    /\ apOut' = [loop |-> "update",
                 rows |-> CleanPairsUpdate(apIn.q,
                              [i \in 1..Len(apIn.rows) |->
                                   Piece(apIn.rows[i].date, apIn.rows[i].qty)])]
    /\ UNCHANGED <<ledger, acc, nextAcc, rdo, nextRdo, rdoDates, lockF, lockP,
                   pc, loc, res, acks, apIn, giacenza, soglie, lista, reorder_count,
                   extSchema>>

(***************************************************************************)
(* Initial states: the store after init_db plus the history a deployment   *)
(* carries over, no request in progress.                                   *)
(***************************************************************************)
NoLocks == [c \in {} |-> LockRow(<<>>, "", 0)]

InitSchema(l, ap, g, s, sch) ==
    /\ ledger = l
    /\ acc = {}
    /\ nextAcc = 1
    /\ rdo = {}
    /\ nextRdo = 1
    /\ rdoDates = <<>>
    /\ lockF = NoLocks
    /\ lockP = NoLocks
    /\ pc = [p \in Procs |-> "idle"]
    /\ loc = [p \in Procs |-> NoLoc]
    /\ res = "none"
    /\ acks = {}
    /\ apIn = ap
    /\ apOut = NoOut
    /\ giacenza = g
    /\ soglie = s
    /\ lista = {}
    /\ reorder_count = 0
    /\ extSchema = sch

\* the registry under the current schema
InitAll(l, ap, g, s) == InitSchema(l, ap, g, s, CurrentSchema)

\* an empty inventory and no threshold rule
InitWith(l, ap) == InitAll(l, ap, NoStock, NoSoglie)

Init == InitWith(<<>>, NoAp)

\* histories with no order of the current year
LegacyLedgers ==
    {<<>>,
     <<Event("ordine", LegacyCode, 1, "a1", "", "")>>,
     <<Event("ordine", OldYearCode, 1, "a1", "", "")>>,
     <<Event("ordine", LegacyCode, 1, "a1", "", ""),
       Event("ordine", OldYearCode, 1, "a1", "", "")>>}

InitLegacy == \E l \in LegacyLedgers : InitWith(l, NoAp)

\* a stored RDO has quantita >= 1, and so has the total either loop starts from
InitApportion == \E q \in 1..MaxQty, r \in RawLists : InitWith(<<>>, [q |-> q, rows |-> r])

\* no other request is in progress
Alone(p) == \A o \in Procs \ {p} : pc[o] = "idle"

(***************************************************************************)
(* What the requests of a run carry.                                       *)
(***************************************************************************)
Qtys == 0..MaxQty
ConfirmForms ==
    {Form(<<"d1">>, <<Num(MaxQty)>>, <<>>),
     Form(<<"d1", "d2">>, <<Num(1), Num(MaxQty)>>, <<"p1">>),
     Form(<<"", "d2">>, <<Num(1), Num(0)>>, <<>>),
     Form(<<"">>, <<Num(1)>>, <<>>)}
UpdatePieces == {<<>>, <<Piece("d1", Num(1)), NoColon, Piece("d2", Num(MaxQty))>>}

KnownCodes == {ledger[i].code : i \in 1..Len(ledger)} \ {NoCode}

CreateStep(p) == \E q \in Qtys, pl \in {<<>>, <<"p1">>} : CreateRdo(p, "a1", q, <<"f1", "f2">>, pl)
ConfirmBeginStep(p) == \E rid \in 1..MaxRdo, qv \in {0, MaxQty}, ff \in {"", "f1"}, f \in ConfirmForms :
                           ConfirmBegin(p, rid, qv, ff, "", f)
ComboBeginStep(p) == \E q \in Qtys : ComboBegin(p, "a1", q, "")
RiordinoBeginStep(p) == \E found \in BOOLEAN : RiordinoBegin(p, found, "a1", 1)
AccUpdateStep(p) == \E id \in 1..MaxAcc, q \in Qtys : AccUpdate(p, id, q)
\* the form of /add arrives prefilled with the quantity accettazione_update let through
AddReadStep(p) == AddRead(p, loc[p].q, 0, "f1", "p1")

(***************************************************************************)
(* Order confirmations, any interleaving.                                  *)
(***************************************************************************)
NextOrder ==
    \E p \in Procs :
        \/ CreateStep(p)
        \/ ConfirmBeginStep(p)
        \/ ConfirmReload(p)
        \/ ConfirmCode(p)
        \/ ConfirmWrite(p)
        \/ ComboBeginStep(p)
        \/ ComboWrite(p)
        \/ RiordinoBeginStep(p)
        \/ RiordinoWrite(p)

SpecOrder == Init /\ [][NextOrder]_vars

(***************************************************************************)
(* Staging and order confirmations, one request after another.             *)
(***************************************************************************)
SeqCreateStep(p) == CreateRdo(p, "a1", 1, <<"f1", "f2">>, <<"p1">>)
SeqUpdateStep(p) == \E rid \in 1..MaxRdo, md \in UpdatePieces : UpdateRdo(p, rid, 0, "f2", "", "d1", md)
SeqConfirmStep(p) ==
    \E rid \in 1..MaxRdo, f \in ConfirmForms, ff \in {"", "f1"} : ConfirmBegin(p, rid, 0, ff, "", f)
SeqComboStep(p) == ComboBegin(p, "a1", 1, "")

NextOrderSeq ==
    \E p \in Procs :
        \/ Alone(p) /\ SeqCreateStep(p)
        \/ Alone(p) /\ SeqUpdateStep(p)
        \/ Alone(p) /\ SeqConfirmStep(p)
        \/ ConfirmReload(p)
        \/ ConfirmCode(p)
        \/ ConfirmWrite(p)
        \/ Alone(p) /\ SeqComboStep(p)
        \/ ComboWrite(p)
        \/ Alone(p) /\ RiordinoBeginStep(p)
        \/ RiordinoWrite(p)

SpecOrderSeq == InitLegacy /\ [][NextOrderSeq]_vars

(***************************************************************************)
(* Orders and the choice of their supplier and producer, any interleaving. *)
(***************************************************************************)
LockCreateStep(p) == CreateRdo(p, "a1", 1, <<"f1", "f2">>, <<"p1">>)
LockConfirmStep(p) == \E rid \in 1..MaxRdo : ConfirmBegin(p, rid, 0, "f1", "", Form(<<"d1">>, <<Num(1)>>, <<>>))
LockComboStep(p) == ComboBegin(p, "a1", 1, "")
LockSetFornStep(p) == \E c \in KnownCodes, v \in Forns : SetFornBegin(p, c, v)
LockSetProdStep(p) == \E c \in KnownCodes : SetProdBegin(p, c, "p1")

NextLock ==
    \E p \in Procs :
        \/ LockCreateStep(p)
        \/ LockConfirmStep(p)
        \/ ConfirmReload(p)
        \/ ConfirmCode(p)
        \/ ConfirmWrite(p)
        \/ LockComboStep(p)
        \/ ComboWrite(p)
        \/ LockSetFornStep(p)
        \/ SetFornWrite(p)
        \/ LockSetProdStep(p)
        \/ SetProdWrite(p)

SpecLock == Init /\ [][NextLock]_vars

(***************************************************************************)
(* Orders, supplier choice and receipts, any interleaving.                 *)
(***************************************************************************)
RecvComboStep(p) == ComboBegin(p, "a1", MaxQty, "")
RecvManualStep(p) == \E d \in {"", "d1"} : ManualOrder(p, "a2", MaxQty, "f1", "p1", d)
RecvSetFornStep(p) == \E c \in KnownCodes : SetFornBegin(p, c, "f1")

NextRecv ==
    \E p \in Procs :
        \/ RecvComboStep(p)
        \/ ComboWrite(p)
        \/ RecvManualStep(p)
        \/ RecvSetFornStep(p)
        \/ SetFornWrite(p)
        \/ AccUpdateStep(p)
        \/ AddReadStep(p)
        \/ AddWrite(p)
        \/ AddClose(p)

SpecRecv == Init /\ [][NextRecv]_vars

(***************************************************************************)
(* The same requests, one after another.                                   *)
(***************************************************************************)
NextRecvSeq ==
    \E p \in Procs :
        \/ Alone(p) /\ RecvComboStep(p)
        \/ ComboWrite(p)
        \/ Alone(p) /\ RecvManualStep(p)
        \/ Alone(p) /\ RecvSetFornStep(p)
        \/ SetFornWrite(p)
        \/ Alone(p) /\ AccUpdateStep(p)
        \/ AddReadStep(p)
        \/ AddWrite(p)
        \/ AddClose(p)

SpecRecvSeq == Init /\ [][NextRecvSeq]_vars

(***************************************************************************)
(* The apportionment loops over every drawn input.                         *)
(***************************************************************************)
NextApportion == ApplyConfirm \/ ApplyUpdate

SpecApportion == InitApportion /\ [][NextApportion]_vars

(***************************************************************************)
(* The detection passes over every drawn stock and threshold registry,     *)
(* with no RDO and no acceptance row.                                       *)
(***************************************************************************)
AllRules == {NoRule} \cup {Rule(th, qr) : th \in 0..MaxSoglia, qr \in 0..MaxRiordino}

InitSoglie ==
    \E n \in 0..MaxStock, e \in AllRules, l \in AllRules :
        InitAll(<<>>, NoAp,
                [NoStock EXCEPT ![Key("a1", "p1")] = n],
                [ext |-> [k \in Keys |-> IF k = Key("a1", "p1") THEN e ELSE NoRule],
                 legacy |-> [a \in Arts |-> l]])

Pages == {"riordini", "dashboard"}

NextSoglie ==
    \/ \E page \in Pages : DetectAcc("w1", page)
    \/ DetectRdo("w1")
    \/ RiordiniCatalog("w1")
    \/ DashboardCatalog("w1")

SpecSoglie == InitSoglie /\ [][NextSoglie]_vars

(***************************************************************************)
(* Orders whose deliveries are typed date by date, and their receipts,     *)
(* requests served one after another.                                      *)
(***************************************************************************)
PairForms ==
    {Form(<<"d1">>, <<Num(1)>>, <<>>),
     Form(<<"d1">>, <<Num(MaxQty)>>, <<>>),
     Form(<<"d1", "d1">>, <<Num(1), Num(MaxQty)>>, <<>>),
     Form(<<"d1", "d2">>, <<Num(1), Num(MaxQty)>>, <<>>)}

\* create_rdo, update_rdo, confirm_rdo with the supplier chosen in the form, the new-order
\* branch of /add with any typed quantity, accettazione_update, and the /add
\* form posted with or without acc_q_totale_new
NextPairs ==
    \E p \in Procs :
        \/ Alone(p) /\ \E q \in 1..MaxQty : CreateRdo(p, "a1", q, <<"f1">>, <<"p1">>)
        \/ Alone(p) /\ \E rid \in 1..MaxRdo, qv \in 0..MaxQty, md \in UpdatePieces :
                           UpdateRdo(p, rid, qv, "f1", "", "d1", md)
        \/ Alone(p) /\ \E rid \in 1..MaxRdo, f \in PairForms :
                           ConfirmBegin(p, rid, 0, "f1", "", f)
        \/ ConfirmReload(p)
        \/ ConfirmCode(p)
        \/ ConfirmWrite(p)
        \/ Alone(p) /\ \E q \in 0..1, d \in {"d1", "d2"} :
                           ManualOrder(p, "a2", q, "f1", "p1", d)
        \/ Alone(p) /\ AccUpdateStep(p)
        \/ \E nt \in 0..1 : AddRead(p, loc[p].q, nt, "f1", "p1")
        \/ AddWrite(p)
        \/ AddClose(p)

SpecPairs == Init /\ [][NextPairs]_vars

\* accettazione_update for record id with a positive quantity not above the
\* residual, the supplier of the record's order being locked
ValidReceive(id) ==
    \E p \in Procs, q \in 1..MaxQty :
        /\ Alone(p)
        /\ \E r \in AccById(id) : LockCheckPasses(r) /\ q <= Residuo(r)
        /\ AccUpdate(p, id, q)

\* a valid receive that stays possible is made, and a request that began is
\* served to its end
SpecPairsFair ==
    /\ SpecPairs
    /\ \A id \in 1..MaxAcc : WF_vars(ValidReceive(id))
    /\ \A p \in Procs :
          /\ WF_vars(\E nt \in 0..1 : AddRead(p, loc[p].q, nt, "f1", "p1"))
          /\ WF_vars(AddWrite(p))
          /\ WF_vars(AddClose(p))
          /\ WF_vars(ConfirmReload(p) \/ ConfirmCode(p) \/ ConfirmWrite(p))

(***************************************************************************)
(* The registry on its own: a starting table of any schema, then rule      *)
(* writes whose schema check may raise at any of its statements.           *)
(***************************************************************************)
StartRules == {NoRule, Rule(0, 0), Rule(1, MaxQty)}
ThRaws == {Num(0 - 1), Num(0), Num(MaxQty), NotNum}
QrRaws == {Num(0), Num(MaxQty + 1), NotNum}

\* the tables a deployment can hold before the first request
StartTables ==
    {NoTable}
    \cup {Table("oldcols", NoExt, [a \in Arts |-> r]) : r \in StartRules}
    \cup {Table("oldpk", [NoExt EXCEPT ![k] = r], NoShort) :
              k \in Keys, r \in StartRules}
    \cup {Table("current", [k \in Keys |-> IF k.prod = "" THEN r1 ELSE r2], NoShort) :
              r1 \in StartRules, r2 \in StartRules}

InitRegistry ==
    \E t \in StartTables, l \in StartRules :
        InitSchema(<<>>, NoAp, NoStock,
                   [ext |-> t.ext, legacy |-> [a \in Arts |-> l]],
                   [kind |-> t.kind, short |-> t.short, old |-> NoTable])

NextRegistry ==
    \/ \E f \in Fails : EnsureCall(f)
    \/ \E k \in Keys, raw \in ThRaws, f \in Fails : UpdateSoglia(k, raw, f)
    \/ \E k \in Keys, raw \in QrRaws, f \in Fails : UpdateQuantitaRiordino(k, raw, f)
    \/ \E k \in Keys, th \in ThRaws, qr \in QrRaws, f \in Fails :
           ConfigPost(k, th, qr, f)

SpecRegistry == InitRegistry /\ [][NextRegistry]_vars

(* another, RDOs created from the rows of the page rendered last, the      *)
(* inventory changing between requests.                                    *)
(***************************************************************************)
DetSoglie ==
    {[ext |-> [k \in Keys |-> Rule(1, 0)], legacy |-> [a \in Arts |-> NoRule]],
     [ext |-> [k \in Keys |-> IF k.prod = "" THEN Rule(0, 0) ELSE Rule(1, 0)],
      legacy |-> [a \in Arts |-> NoRule]]}

InitDetect == \E s \in DetSoglie : InitAll(<<>>, NoAp, NoStock, s)

DetCreateStep(p) ==
    \E row \in lista, pl \in {<<>>, <<"p1">>} :
        CreateRdo(p, row.key.art, row.riordino_qty, <<"f1">>, pl)
DetInviaStep(p) ==
    \E row \in lista :
        ConfermaEInvia(p, row.key.art, row.key.prod, row.riordino_qty, <<"f1">>, <<>>)
DetUpdateStep(p) ==
    \E rid \in 1..MaxRdo, ps \in {"", "p1"} : UpdateRdo(p, rid, 0, "", ps, "", <<>>)
DetConfirmStep(p) ==
    \E rid \in 1..MaxRdo, fp \in {"", "p1"} :
        ConfirmBegin(p, rid, 0, "f1", fp, Form(<<"d1">>, <<Num(MaxQty)>>, <<>>))
DetReceiveStep(p) == \E id \in 1..MaxAcc, q \in 1..MaxQty : AccUpdate(p, id, q)
DetInventarioStep == \E k \in Keys, n \in 0..MaxGiacenza : Inventario(k, n)

NextDetect ==
    \/ \E p \in Procs :
        \/ Alone(p) /\ DetCreateStep(p)
        \/ Alone(p) /\ DetInviaStep(p)
        \/ Alone(p) /\ DetUpdateStep(p)
        \/ Alone(p) /\ DetConfirmStep(p)
        \/ ConfirmReload(p)
        \/ ConfirmCode(p)
        \/ ConfirmWrite(p)
        \/ Alone(p) /\ DetReceiveStep(p)
        \/ AddReadStep(p)
        \/ AddWrite(p)
        \/ AddClose(p)
        \/ Alone(p) /\ \E page \in Pages : DetectAcc(p, page)
        \/ DetectRdo(p)
        \/ RiordiniCatalog(p)
        \/ DashboardCatalog(p)
    \/ (\A p \in Procs : pc[p] = "idle") /\ DetInventarioStep

SpecDetect == InitDetect /\ [][NextDetect]_vars

(***************************************************************************)
(* Properties.                                                             *)
(***************************************************************************)
\* the 'ordine' events of the ledger
OrderEvents == SelectSeq(ledger, LAMBDA e : e.tipo = "ordine")
\* the 'accettazione' events of the ledger
ReceiptEvents == SelectSeq(ledger, LAMBDA e : e.tipo = "accettazione")
\* worker p takes the step that leaves label l
Leaves(p, l) == pc[p] = l /\ pc'[p] # l

\* C1: whatever the interleaving of confirm_rdo, conferma_ordine_combo and
\* conferma_riordino, no two 'ordine' history rows carry the same order code.
OrderCodesDistinct ==
    \A i, j \in 1..Len(OrderEvents) :
        i # j => OrderEvents[i].code # OrderEvents[j].code

\* C2: in every reachable state every acceptance row has
\* quantita_ricevuta <= quantita_totale.
ReceivedWithinTotal == \A r \in acc : r.received <= r.total

\* C3: an apply step of /add whose quantity is <= 0 or exceeds the residual the
\* row has at that moment leaves the row's received quantity, the existence of
\* the row and the ledger unchanged.
BadReceiveChangesNothing ==
    [][\A p \in Procs : \A r \in acc :
          (/\ Leaves(p, "add_write")
           /\ r.id = loc[p].id
           /\ (loc[p].q <= 0 \/ loc[p].q > r.total - r.received))
          => /\ ledger' = ledger
             /\ \E r2 \in acc' : r2.id = r.id /\ r2.received = r.received]_vars

\* C4: the received quantity of an acceptance row grows, and an 'accettazione'
\* event is appended, only while the row's order has a locked supplier.
ReceiveOnlyWhenLocked ==
    [][\A r \in acc :
          ((\E r2 \in acc' : r2.id = r.id /\ r2.received > r.received)
           \/ (Len(ledger') > Len(ledger) /\ ledger'[Len(ledger')].tipo = "accettazione"
               /\ \E p \in Procs : Leaves(p, "add_write") /\ loc[p].id = r.id))
          => SupplierLocked(r.code)]_vars

\* C5: the received quantity of an acceptance row never decreases, and in every
\* state another request can read, an existing row has received < total.
MonotoneAndOpen ==
    /\ [](\A r \in acc : r.received < r.total)
    /\ [][\A r \in acc : \A r2 \in acc' : r2.id = r.id => r2.received >= r.received]_vars

\* C6: an apply step of /add with 0 < q <= residual on an order whose supplier
\* is locked raises the row's received quantity by exactly q and appends exactly
\* one 'accettazione' event with quantity q and the row's code and article; a
\* receive of the whole residual is followed by the deletion of the row.
ValidReceiveExact ==
    [][\A p \in Procs :
          /\ \A r \in acc :
                (/\ Leaves(p, "add_write")
                 /\ r.id = loc[p].id
                 /\ loc[p].q > 0 /\ loc[p].q <= r.total - r.received
                 /\ SupplierLocked(r.code))
                => /\ \E r2 \in acc' : r2.id = r.id /\ r2.received = r.received + loc[p].q
                   /\ Len(ledger') = Len(ledger) + 1
                   /\ SubSeq(ledger', 1, Len(ledger)) = ledger
                   /\ LET e == ledger'[Len(ledger')]
                      IN  e.tipo = "accettazione" /\ e.qty = loc[p].q
                          /\ e.code = r.code /\ e.art = r.art
                   /\ (loc[p].q = r.total - r.received => pc'[p] = "add_close")
          /\ Leaves(p, "add_close") => \A r2 \in acc' : r2.id # loc[p].id]_vars

\* C6 witness: an order with a locked supplier received in full by one receipt
\* of its whole quantity, its row gone.
FullReceiptLogged ==
    /\ Len(ReceiptEvents) = 1
    /\ ReceiptEvents[1].qty = MaxQty
    /\ SupplierLocked(ReceiptEvents[1].code)
    /\ \A r \in acc : r.code # ReceiptEvents[1].code
    /\ \A p \in Procs : pc[p] = "idle"

\* C7: a set_fornitore_ordine / set_produttore_ordine request for a code whose
\* supplier / producer is already locked answers with the conflict and leaves
\* both lock tables and the ledger as they are.
LaterSetFails ==
    [][\A p \in Procs : \A c \in KnownCodes :
          (\/ (c \in DOMAIN lockF /\ lockF[c].locked = 1
               /\ \E v \in Forns : SetFornBegin(p, c, v))
           \/ (c \in DOMAIN lockP /\ lockP[c].locked = 1
               /\ \E v \in Prods : SetProdBegin(p, c, v)))
          => /\ res' = "conflict"
             /\ pc'[p] = "idle"
             /\ lockF' = lockF /\ lockP' = lockP /\ ledger' = ledger]_vars

\* C7 witness: a request was refused with the conflict while one code is locked
\* by confirm_rdo (its row carries the RDO's supplier list) and another by a
\* set_fornitore_ordine call.
ConflictAnswered ==
    /\ res = "conflict"
    /\ \E c \in DOMAIN lockF : lockF[c].locked = 1 /\ lockF[c].list # <<>>
    /\ \E a \in acks : a.kind = "forn"

\* C8: of the set_fornitore_ordine (set_produttore_ordine) requests made for one
\* order code, at most one answers success, and the stored choice is the value
\* of that request.
OneWinner ==
    /\ \A a, b \in acks : (a # b /\ a.kind = b.kind) => a.code # b.code
    /\ \A a \in acks :
          /\ a.kind = "forn" => lockF[a.code].chosen = a.val
          /\ a.kind = "prod" => lockP[a.code].chosen = a.val

\* C9: from a history with no order of the current year, the orders confirmed
\* one after another carry the codes TM<year>/0001, TM<year>/0002, ... in that
\* order.
SequentialCodes ==
    LET cur == SelectSeq(OrderEvents, LAMBDA e : e.code.prefix = "TM" /\ e.code.year = Year)
        new == SelectSeq(OrderEvents, LAMBDA e : e.code # LegacyCode /\ e.code # OldYearCode)
    IN  /\ cur = new
        /\ \A i \in 1..Len(cur) :
              cur[i].code = [prefix |-> "TM", year |-> Year, prog |-> <<0, 0, 0, i>>]

\* C9 witness: two orders confirmed after a legacy code and a code of last year.
TwoAfterLegacy ==
    /\ Len(ledger) = 4
    /\ ledger[1].code = LegacyCode
    /\ ledger[2].code = OldYearCode
    /\ ledger[3].code = [prefix |-> "TM", year |-> Year, prog |-> <<0, 0, 0, 1>>]
    /\ ledger[4].code = [prefix |-> "TM", year |-> Year, prog |-> <<0, 0, 0, 2>>]

\* the submitted quantities, all rows / the rows with a date
RECURSIVE RawTotal(_)
RawTotal(rows) ==
    IF Len(rows) = 0 THEN 0 ELSE ParseQty(Head(rows).qty) + RawTotal(Tail(rows))
RECURSIVE DatedTotal(_)
DatedTotal(rows) ==
    IF Len(rows) = 0 THEN 0
    ELSE (IF Head(rows).date # "" THEN ParseQty(Head(rows).qty) ELSE 0) + DatedTotal(Tail(rows))

RECURSIVE RefRule(_, _, _, _)
RefRule(rows, i, remaining, out) ==
    IF i > Len(rows) \/ remaining <= 0 THEN out
    ELSE LET raw == ParseQty(rows[i].qty)
             q1 == IF i = 1 /\ raw < 1 THEN 1 ELSE raw
             q == IF q1 > remaining THEN remaining ELSE q1
         IN  IF q > 0
             THEN RefRule(rows, i + 1, remaining - q, Append(out, [date |-> rows[i].date, qty |-> q]))
             ELSE RefRule(rows, i + 1, remaining, out)

\* the submitted pairs that carry a date
DatedRows(rows) == SelectSeq(rows, LAMBDA r : r.date # "")
\* the accepted pairs, without the producer
AcceptedPairs == [i \in 1..Len(apOut.rows) |-> [date |-> apOut.rows[i].date, qty |-> apOut.rows[i].qty]]

\* C11: for every total Q >= 1 and every submitted list, the pairs either loop
\* accepts are those of the reference rule, applied to the list as submitted or
\* to its pairs that carry a date.
ApportionIsReference ==
    (apOut # NoOut /\ apIn.q >= 1)
    => \/ AcceptedPairs = RefRule(apIn.rows, 1, apIn.q, <<>>)
       \/ AcceptedPairs = RefRule(DatedRows(apIn.rows), 1, apIn.q, <<>>)

\* C12: the second transaction of confirm_rdo creates exactly one acceptance
\* row per accepted pair (the rdo_dates rows its first transaction stored),
\* each with nothing received, the pair's quantity and date, the new order
\* code, and the pair's producer when given and the order's producer otherwise.
OneRecordPerPair ==
    [][\A p \in Procs :
          Leaves(p, "confirm_write")
          => LET pairs == DatesOf(loc[p].id)
                 new == acc' \ acc
                 prod == Chosen(loc[p].rrow.prod, loc[p].rrow.produttori)
             IN  /\ Cardinality(new) = Len(pairs)
                 /\ \A k \in 1..Len(pairs) :
                       \E r \in new :
                           /\ r.id = nextAcc + k - 1
                           /\ r.received = 0
                           /\ r.total = pairs[k].qty
                           /\ r.date = pairs[k].date
                           /\ r.code = loc[p].code
                           /\ r.prod = IF pairs[k].prod # "" THEN pairs[k].prod ELSE prod]_vars

\* the order codes that have acceptance rows or 'accettazione' events
ReceivableCodes ==
    ({r.code : r \in acc} \cup {ReceiptEvents[i].code : i \in 1..Len(ReceiptEvents)}) \ {NoCode}

\* C13: a confirmation appends exactly one 'ordine' event, with the new order
\* code and the whole order quantity, and in every state each order code that
\* has acceptance rows or acceptance events has exactly one 'ordine' event.
OneOrderEvent ==
    /\ [](\A c \in ReceivableCodes :
             Cardinality({i \in 1..Len(OrderEvents) : OrderEvents[i].code = c}) = 1)
    /\ [][\A p \in Procs :
             /\ Leaves(p, "confirm_write")
                => /\ Len(ledger') = Len(ledger) + 1
                   /\ SubSeq(ledger', 1, Len(ledger)) = ledger
                   /\ ledger'[Len(ledger')].tipo = "ordine"
                   /\ ledger'[Len(ledger')].code = loc[p].code
                   /\ ledger'[Len(ledger')].qty = loc[p].rrow.qty
             /\ (Leaves(p, "combo_write") \/ Leaves(p, "riordino_write"))
                => /\ Len(ledger') = Len(ledger) + 1
                   /\ SubSeq(ledger', 1, Len(ledger)) = ledger
                   /\ ledger'[Len(ledger')].tipo = "ordine"
                   /\ ledger'[Len(ledger')].code = loc[p].code
                   /\ ledger'[Len(ledger')].qty = loc[p].q]_vars

\* worker p takes a step of a confirm_rdo request
ConfirmSteps(p) ==
    \/ pc[p] = "idle" /\ pc'[p] = "confirm_reload"
    \/ Leaves(p, "confirm_reload")
    \/ Leaves(p, "confirm_code")
    \/ Leaves(p, "confirm_write")

\* C14: every committed step of a confirm_rdo request either leaves the RDO,
\* its splits, the locks, the ledger and the acceptance rows as they were, or
\* leaves the RDO and its splits gone and the lock, the one 'ordine' event and
\* the acceptance rows of the new code in place.
ConfirmAllOrNothing ==
    [][\A p \in Procs :
          ConfirmSteps(p)
          => \/ UNCHANGED <<rdo, rdoDates, lockF, lockP, ledger, acc>>
             \/ /\ \A r \in rdo' : r.id # loc[p].id
                /\ \A i \in 1..Len(rdoDates') : rdoDates'[i].rdo # loc[p].id
                /\ loc[p].code \in DOMAIN lockF' /\ lockF'[loc[p].code].locked = 1
                /\ Len(ledger') = Len(ledger) + 1
                /\ ledger'[Len(ledger')].tipo = "ordine"
                /\ ledger'[Len(ledger')].code = loc[p].code
                /\ \E r \in acc' \ acc : r.code = loc[p].code]_vars

\* C15: the second transaction of confirm_rdo leaves neither the RDO nor any of
\* its splits; an id that is gone stays gone; a confirmation gets past its
\* lookup only for an existing RDO; update_rdo stores no split for a missing
\* RDO and, like every request that is not a confirmation, creates no lock, no
\* acceptance row and no history event.
ConfirmedOnce ==
    /\ [](\A i \in 1..Len(rdoDates) : RdoById(rdoDates[i].rdo) # {})
    /\ [][\A p \in Procs :
             /\ Leaves(p, "confirm_write") => \A r \in rdo' : r.id # loc[p].id
             /\ (pc[p] = "idle" /\ pc'[p] = "confirm_reload") => RdoById(loc'[p].id) # {}]_vars
    /\ [][(\A p \in Procs : pc[p] = "idle" /\ pc'[p] = "idle")
             => UNCHANGED <<ledger, acc, lockF, lockP>>]_vars
    /\ [][\A rid \in 1..(nextRdo - 1) :
             RdoById(rid) = {} => \A r \in rdo' : r.id # rid]_vars

\* C15 witness: the RDO created first was confirmed by confirm_rdo with a
\* delivery date; it and its splits are gone and its order is in place.
RdoConsumed ==
    /\ nextRdo > 1
    /\ RdoById(1) = {}
    /\ rdoDates = <<>>
    /\ \E c \in DOMAIN lockF :
          /\ lockF[c].list # <<>>
          /\ \E r \in acc : r.code = c /\ r.date = "d1"
          /\ \E i \in 1..Len(OrderEvents) : OrderEvents[i].code = c
    /\ \A p \in Procs : pc[p] = "idle"

\* C16: a confirm_rdo request without a chosen supplier, or without a non-blank
\* delivery date, is answered with the warning and changes nothing: the RDO, its
\* splits, the locks, the acceptance rows and the ledger (hence the next order
\* code) stay as they were and the request is over.
IncompleteConfirmNoOp ==
    [][\A p \in Procs, rid \in 1..MaxRdo, f \in ConfirmForms, ff \in {"", "f1"} :
          (/\ RdoById(rid) # {}
           /\ ff = "" \/ \A i \in 1..Len(f.dates) : f.dates[i] = ""
           /\ ConfirmBegin(p, rid, 0, ff, "", f))
          => /\ UNCHANGED <<rdo, rdoDates, lockF, lockP, acc, nextAcc, ledger>>
             /\ generate_order_code(ledger') = generate_order_code(ledger)
             /\ pc'[p] = "idle"
             /\ res' = "incomplete"]_vars

\* C16 witness: confirm_rdo has just answered with the warning while an RDO with
\* a stored split is open and no order exists yet.
IncompleteRejected ==
    /\ res = "incomplete"
    /\ rdo # {}
    /\ rdoDates # <<>>
    /\ ledger = <<>> /\ acc = {} /\ DOMAIN lockF = {}
    /\ \A p \in Procs : pc[p] = "idle"

\* the keys of the rows of a rendered page
KeysOf(rows) == {r.key : r \in rows}

\* the keys the riordini page lists when it is served in the current state
ListedNow == KeysOf(ReorderRows(AccKeys \cup RdoAllKeys))

\* the producers an open RDO stands for: the chosen one, else the listed ones,
\* else the unspecified producer
RdoProducers(r) ==
    IF r.prod # "" THEN {r.prod}
    ELSE IF Len(r.produttori) > 0 THEN {r.produttori[i] : i \in 1..Len(r.produttori)}
         ELSE {""}

\* key k is the article of an open acceptance row or of an open RDO
InFlight(k) ==
    \/ \E r \in acc : r.art = k.art /\ r.prod = k.prod
    \/ \E r \in rdo : r.art = k.art /\ k.prod \in RdoProducers(r)

\* key k is at or below its non-zero threshold
Short(k) == Soglia(k) # 0 /\ giacenza[k] <= Soglia(k)

\* C17: a pass of the riordini page lists no catalog key that is the article of
\* an open RDO or acceptance row, a pass of the dashboard counts none, and a key
\* for which create_rdo or conferma_e_invia has just stored an RDO from a row of
\* the shortage list is off the list from that moment.
InFlightOffList ==
    /\ [][\A p \in Procs :
             Leaves(p, "detect_catalog")
             => /\ loc[p].page = "riordini"
                   => \A k \in Catalogo : InFlight(k) => k \notin KeysOf(lista')
                /\ loc[p].page = "dashboard"
                   => reorder_count' <= Cardinality({k \in Catalogo : ~ InFlight(k)})]_vars
    /\ [][\A p \in Procs, row \in lista, pl \in {<<>>, <<"p1">>} :
             (/\ \/ CreateRdo(p, row.key.art, row.riordino_qty, <<"f1">>, pl)
                 \/ ConfermaEInvia(p, row.key.art, row.key.prod, row.riordino_qty, <<"f1">>, pl)
              /\ rdo' # rdo)
             => row.key \notin ListedNow']_vars

\* C18: at the end of a pass every catalog key at or below its non-zero
\* threshold is on the page (is counted, on the dashboard) or is the article,
\* producer included, of an open RDO or acceptance row; with no RDO and no
\* acceptance row left every such key is listed.
ShortIsTracked ==
    [][\A p \in Procs :
          Leaves(p, "detect_catalog")
          => /\ loc[p].page = "riordini"
                => /\ \A k \in Catalogo : Short(k) => k \in KeysOf(lista') \/ InFlight(k)
                   /\ (rdo = {} /\ acc = {})
                      => \A k \in Catalogo : Short(k) => k \in KeysOf(lista')
             /\ loc[p].page = "dashboard"
                => reorder_count' >= Cardinality({k \in Catalogo : Short(k) /\ ~ InFlight(k)})]_vars

\* C18 witness: an order confirmed from an RDO was received in full, no RDO and
\* no acceptance row is left, the article is still short, and a pass of the
\* riordini page that has read both tables since is about to list it.
ShortRelisted ==
    /\ rdo = {} /\ acc = {}
    /\ \E i \in 1..Len(ledger) : ledger[i].tipo # "ordine" /\ ledger[i].art = "a1"
    /\ Short(Key("a1", "p1"))
    /\ \E p \in Procs : /\ pc[p] = "detect_catalog"
                        /\ loc[p].page = "riordini"
                        /\ loc[p].keys = {}

\* C19: a key whose applicable threshold is 0 is on no rendered riordini page,
\* and the dashboard counts at most the keys whose threshold is not 0.
ZeroThresholdOffList ==
    /\ [](\A r \in lista : Soglia(r.key) # 0)
    /\ [](reorder_count <= Cardinality({k \in Catalogo : Soglia(k) # 0}))

\* C19 witness: both pages were rendered; the key with threshold 0, stock 0 and
\* the largest reorder quantity is not listed while the other key is.
ZeroThresholdSkipped ==
    /\ soglie.ext[Key("a1", "p1")] = Rule(0, MaxRiordino)
    /\ giacenza[Key("a1", "p1")] = 0
    /\ KeysOf(lista) = {Key("a1", "")}
    /\ reorder_count = 1
    /\ pc["w1"] = "idle"

\* C20: every listed row has stock <= threshold and suggests threshold + 1 - stock
\* when the applicable rule has no positive reorder quantity or when stock plus
\* that quantity is <= threshold + 1, the reorder quantity otherwise; the
\* suggestion is >= 1.
SuggestedQuantity ==
    [](\A r \in lista :
          LET stock == r.quantita_totale
              th == Soglia(r.key)
              rq == RqManual(r.key)
          IN  /\ stock = giacenza[r.key]
              /\ stock <= th
              /\ r.riordino_qty >= 1
              /\ r.riordino_qty = IF rq <= 0 \/ stock + rq <= th + 1
                                  THEN th + 1 - stock
                                  ELSE rq)

\* C20 witness: stock 3, threshold 5, reorder quantity 10: the page suggests 10.
SuggestsReorderQuantity ==
    /\ soglie.ext[Key("a1", "p1")] = Rule(5, 10)
    /\ [key |-> Key("a1", "p1"), quantita_totale |-> 3, riordino_qty |-> 10] \in lista

\* the rule of key k by the precedence of the claim: extended, else legacy,
\* else the default threshold with no reorder quantity
GetRule(k) ==
    IF soglie.ext[k].present THEN soglie.ext[k]
    ELSE IF soglie.legacy[k.art].present THEN soglie.legacy[k.art]
         ELSE Rule(DEFAULT_REORDER_THRESHOLD, 0)

\* the rows a pass must produce when every key is judged by GetRule
RowsByRule(active) ==
    {[key |-> k, quantita_totale |-> giacenza[k],
      riordino_qty |-> LET th == GetRule(k).threshold
                           rq == GetRule(k).quantita_riordino
                       IN  IF rq <= 0 \/ giacenza[k] + rq <= th + 1
                           THEN th + 1 - giacenza[k]
                           ELSE rq] :
        k \in {c \in Catalogo : /\ c \notin active
                                /\ GetRule(c).threshold # 0
                                /\ giacenza[c] <= GetRule(c).threshold}}

\* C21: what a pass lists, suggests and counts is what the rule of each key
\* gives when that rule is the extended one if the key has one, else the legacy
\* one of its article, else the default threshold with no reorder quantity.
ExtendedRuleFirst ==
    [][\A p \in Procs :
          Leaves(p, "detect_catalog")
          => /\ loc[p].page = "riordini" => lista' = RowsByRule(loc[p].keys)
             /\ loc[p].page = "dashboard"
                => reorder_count' = Cardinality(RowsByRule(loc[p].keys))]_vars

\* C21 witness: the key with extended rule (1, none), legacy rule (5, 10) and
\* stock 3 is not listed, as its extended rule says; the key without extended
\* rule is listed with the legacy reorder quantity; both pages were rendered.
ExtendedRuleApplied ==
    /\ soglie.ext[Key("a1", "p1")] = Rule(1, 0)
    /\ soglie.legacy["a1"] = Rule(5, 10)
    /\ giacenza[Key("a1", "p1")] = 3
    /\ lista = {[key |-> Key("a1", ""), quantita_totale |-> 0, riordino_qty |-> 10]}
    /\ reorder_count = 1

(***************************************************************************)
(* The threshold registry                                                  *)
(***************************************************************************)
\* the rule a request wrote for key k is the one both tables hold
BothHold(k) ==
    /\ soglie'.ext[k].present
    /\ soglie'.legacy[k.art] = soglie'.ext[k]

\* C22: every rule write (update_soglia, update_quantita_riordino, the
\* /config POST) leaves the extended rule of its key and the legacy rule of
\* the key's article holding the same written threshold and reorder quantity
RuleWritesBoth ==
    [][\A k \in Keys, f \in Fails :
          /\ (\E raw \in ThRaws : UpdateSoglia(k, raw, f)) => BothHold(k)
          /\ (\E raw \in QrRaws : UpdateQuantitaRiordino(k, raw, f)) => BothHold(k)
          /\ (\E th \in ThRaws, qr \in QrRaws : ConfigPost(k, th, qr, f))
                => BothHold(k)]_vars

\* C23: ensure_riordino_soglie_ext_schema is idempotent: from every table,
\* the call made twice in a row leaves the schema and the rule rows the call
\* made once leaves, and on a table of the current schema the call changes
\* nothing
EnsureIdempotent ==
    LET now == [t |-> Live, old |-> extSchema.old]
        once == EnsureSchema(Live, extSchema.old, "none")
    IN  /\ EnsureSchema(once.t, once.old, "none") = once
        /\ Live.kind = "current" => once = now

\* a table of an old schema was rebuilt: only the copy turns a threshold of 0
\* into the default next to a reorder quantity of 0
EnsureMigrated ==
    /\ extSchema.kind = "current"
    /\ extSchema.old = NoTable
    /\ soglie.ext[Key("a1", "")] = Rule(DEFAULT_REORDER_THRESHOLD, 0)

\* the call raises at step fail from the tables of the state (a RENAME also
\* raises when riordino_soglie_ext_old already exists)
Raises(fail) ==
    IF Live.kind = "absent" THEN fail = "create"
    ELSE /\ NeedsMigration(Live.kind)
         /\ fail # "none" \/ extSchema.old.kind # "absent"

\* C24: a call of ensure_riordino_soglie_ext_schema that raises returns to
\* its caller, and every rule stored before it is still in riordino_soglie_ext
\* and read by the detector after it, as it was or as the copy writes it
FailureKeepsRules ==
    [][\A f \in Fails :
          (Raises(f) /\ EnsureCall(f))
          => /\ \A k \in Keys :
                   soglie.ext[k].present
                   => soglie'.ext[k] \in {soglie.ext[k], MigratedRule(soglie.ext[k])}
             /\ \A a \in Arts :
                   extSchema.short[a].present
                   => \/ extSchema'.short[a] = extSchema.short[a]
                      \/ soglie'.ext[Key(a, "")] = MigratedRule(extSchema.short[a])]_vars

(***************************************************************************)
(* The history ledger                                                      *)
(***************************************************************************)
\* C25: the history ledger is append-only: no operation changes a field of
\* an event that exists or deletes it
LedgerAppendOnly ==
    [][/\ Len(ledger') >= Len(ledger)
       /\ \A i \in 1..Len(ledger) : ledger'[i] = ledger[i]]_vars

\* C25, amended: no operation deletes a history event, and the only change
\* to an event that exists is the one set_fornitore_ordine and
\* set_produttore_ordine make to the order events of their code, whose
\* supplier, or producer, becomes the one they lock
LedgerBackFillOnly ==
    [][/\ Len(ledger') >= Len(ledger)
       /\ \A i \in 1..Len(ledger) :
             \/ ledger'[i] = ledger[i]
             \/ /\ ledger[i].tipo = "ordine"
                /\ \E p \in Procs :
                      /\ loc[p].code = ledger[i].code
                      /\ \/ /\ pc[p] = "set_forn_write"
                            /\ ledger'[i] = [ledger[i] EXCEPT !.forn = loc[p].forn]
                         \/ /\ pc[p] = "set_prod_write"
                            /\ ledger'[i] = [ledger[i] EXCEPT !.prod = loc[p].prod]]_vars

\* the order event of a combo order, created without a supplier, carries the
\* supplier locked later, next to the event of another order
LedgerBackFilled ==
    \E i, j \in 1..Len(ledger) :
        /\ ledger[i].tipo = "ordine"
        /\ ledger[i].art = "a1"
        /\ ledger[i].forn = "f1"
        /\ ledger[j].code # ledger[i].code

(***************************************************************************)
(* Acceptance records                                                      *)
(***************************************************************************)
\* C26: no two acceptance records of an order code share the expected date
OnePerCodeAndDate ==
    \A r1, r2 \in acc :
        (r1.code # NoCode /\ r1.code = r2.code /\ r1.date = r2.date) => r1.id = r2.id

\* C27: every RDO has a quantity above 0 and every acceptance record a total
\* above 0, whichever operation created or edited it
QuantitiesPositive ==
    /\ \A r \in rdo : r.qty > 0
    /\ \A r \in acc : r.total > 0

\* C28: update_rdo and confirm_rdo on an RDO id that does not exist, and
\* accettazione_update and the receive step of /add on an acceptance id that
\* does not exist, report not-found and create, change or delete no row
MissingIdNotFound ==
    [][\A p \in Procs :
          /\ \A rid \in 1..MaxRdo :
                (/\ RdoById(rid) = {}
                 /\ \/ \E qv \in 0..MaxQty, md \in UpdatePieces :
                          UpdateRdo(p, rid, qv, "f1", "", "d1", md)
                    \/ \E f \in PairForms : ConfirmBegin(p, rid, 0, "f1", "", f))
                => res' = "not_found" /\ DbUnchanged
          /\ \A id \in 1..MaxAcc :
                (AccById(id) = {} /\ \E q \in Qtys : AccUpdate(p, id, q))
                => res' = "not_found" /\ DbUnchanged
          /\ (/\ pc[p] = "add_form"
              /\ AccById(loc[p].id) = {}
              /\ \E nt \in 0..1 : AddRead(p, loc[p].q, nt, "f1", "p1"))
                => res' = "not_found" /\ DbUnchanged]_vars

\* C29: every acceptance record that exists is eventually closed (deleted)
\* when the valid receives are made
EveryRecordCloses ==
    \A id \in 1..MaxAcc : (AccById(id) # {}) ~> (AccById(id) = {})

\* the same for the records whose total is above 0
PositiveRecordCloses ==
    \A id \in 1..MaxAcc :
        (\E r \in AccById(id) : r.total > 0) ~> (AccById(id) = {})

\* C30: the apply step of /add that follows accettazione_update leaves
\* quantita_totale of every acceptance record as it was
ReceiveKeepsTotal ==
    [][\A p \in Procs :
          Leaves(p, "add_write")
          => \A r \in acc, n \in acc' : n.id = r.id => n.total = r.total]_vars

\* C31: on a key that has an extended rule, update_soglia leaves the stored
\* reorder quantity as it was and update_quantita_riordino leaves the stored
\* threshold as it was, a threshold of 0 included (no statement raising)
RuleWriteKeepsOther ==
    [][\A k \in Keys :
          soglie.ext[k].present
          => /\ (\E raw \in ThRaws : UpdateSoglia(k, raw, "none"))
                  => soglie'.ext[k].quantita_riordino = soglie.ext[k].quantita_riordino
             /\ (\E raw \in QrRaws : UpdateQuantitaRiordino(k, raw, "none"))
                  => soglie'.ext[k].threshold = soglie.ext[k].threshold]_vars

(***************************************************************************)
(* Quantities across the ledger, the splits and the records                *)
(***************************************************************************)
\* the quantities of the 'accettazione' events of order code c, summed
ReceivedOf(c) ==
    LET IsReceipt(e) == e.tipo = "accettazione" /\ e.code = c
    IN  SumQty(SelectSeq(ledger, IsReceipt))

\* C32: for every order code the quantities of its 'accettazione' events sum
\* to at most the quantity of its 'ordine' event
LedgerConserved ==
    \A i \in 1..Len(ledger) :
        (ledger[i].tipo = "ordine" /\ ledger[i].code # NoCode)
        => ReceivedOf(ledger[i].code) <= ledger[i].qty

\* C33: the quantities of the rdo_dates rows of an RDO sum to at most the
\* RDO's quantity
SplitsWithinQuantity ==
    \A r \in rdo : SumQty(DatesOf(r.id)) <= r.qty

\* quantita_totale summed over a set of acceptance records
RECURSIVE SumTotals(_)
SumTotals(rows) ==
    IF rows = {} THEN 0
    ELSE LET r == CHOOSE x \in rows : TRUE IN r.total + SumTotals(rows \ {r})

\* C34: the acceptance records created by a confirm_rdo have totals that sum
\* to the quantity of the 'ordine' event the same confirmation appends
RecordsCoverOrder ==
    [][\A p \in Procs :
          Leaves(p, "confirm_write")
          => /\ Len(ledger') = Len(ledger) + 1
             /\ ledger'[Len(ledger')].tipo = "ordine"
             /\ SumTotals(acc' \ acc) = ledger'[Len(ledger')].qty]_vars

\* C35: whatever the interleaving of two confirm_rdo requests on one RDO id,
\* the RDO produces at most one order: a confirmation writes its order (order
\* code, 'ordine' event, acceptance rows) only for an RDO that no other
\* confirmation has consumed, so the step that writes an order finds the RDO
\* still stored.
OneOrderPerRdo ==
    [][\A p \in Procs :
          Leaves(p, "confirm_write") => RdoById(loc[p].id) # {}]_vars

\* C36: whatever the interleaving of two receive apply steps on one acceptance
\* row, no receipt is lost: the step that appends an 'accettazione' event of
\* quantity q for a row that exists raises the quantita_ricevuta stored for
\* that row by q, so that the stored value stays the sum of the row's events.
NoReceiptLost ==
    [][\A p \in Procs : \A r \in acc :
          (/\ Leaves(p, "add_write")
           /\ r.id = loc[p].id
           /\ loc[p].q > 0)
          => /\ Len(ledger') = Len(ledger) + 1
             /\ ledger'[Len(ledger')].tipo = "accettazione"
             /\ ledger'[Len(ledger')].qty = loc[p].q
             /\ \E r2 \in acc' : r2.id = r.id /\ r2.received = r.received + loc[p].q]_vars

\* the rule the table of the state holds for key k before a migration: a
\* table without the produttore column holds it under the blank producer
RuleBefore(k) ==
    IF Live.kind = "oldcols"
    THEN IF k.prod = "" THEN Live.short[k.art] ELSE NoRule
    ELSE Live.ext[k]

\* C37: a call of ensure_riordino_soglie_ext_schema that rebuilds a table of
\* an old schema keeps the threshold of every rule the old table held, the
\* sentinel 0 included: the rule is in the new table with the same threshold.
MigrationKeepsThreshold ==
    [][(/\ EnsureCall("none")
        /\ Live.kind \in {"oldcols", "oldpk"}
        /\ extSchema.old.kind = "absent")
       => \A k \in Keys :
             RuleBefore(k).present
             => /\ soglie'.ext[k].present
                /\ soglie'.ext[k].threshold = RuleBefore(k).threshold]_vars

\* the same for the rules whose threshold is not 0
MigrationKeepsPositiveThreshold ==
    [][(/\ EnsureCall("none")
        /\ Live.kind \in {"oldcols", "oldpk"}
        /\ extSchema.old.kind = "absent")
       => \A k \in Keys :
             (RuleBefore(k).present /\ RuleBefore(k).threshold # 0)
             => /\ soglie'.ext[k].present
                /\ soglie'.ext[k].threshold = RuleBefore(k).threshold]_vars
====
